---- MODULE Spec2Model ----
(***************************************************************************)
(* Model of src/dot11/header.rs: the 802.11 MAC header decoder.            *)
(* The decoder is a set of pure functions over a byte slice.  Each is an   *)
(* operator computed the way the code computes it (a reader with a         *)
(* position over the input, zero-initialised destination arrays, the       *)
(* Result / panic outcome of every call).  The state machine draws one     *)
(* input buffer and applies one of the two public entry points to it.      *)
(***************************************************************************)
EXTENDS Integers, Sequences, FiniteSets

VARIABLES input, pc, result

vars == <<input, pc, result>>

----------------------------------------------------------------------------
(* Bounds of the model *)

\* longest input buffer drawn
MaxLen == 32
\* number of distinct fill patterns for the bytes after the frame control
NumPatterns == 2

----------------------------------------------------------------------------
(* Bytes and bit helpers *)

Byte == 0..255

Min(a, b) == IF a < b THEN a ELSE b

\* util::flag_is_set(byte, n): bit n of the byte
flag_is_set(flags, n) == (flags \div (2 ^ n)) % 2 = 1

----------------------------------------------------------------------------
(* Outcomes of a call: Ok(value), Err(error), or a panic *)

Ok(v) == [kind |-> "Ok", value |-> v]
Err(e) == [kind |-> "Err", error |-> e]
Panic == [kind |-> "Panic"]

----------------------------------------------------------------------------
(* Reader over a buffer: read(n) fills a zeroed array of n bytes with the  *)
(* min(remaining, n) next bytes, advances by that many and returns Ok.     *)

Reader_read(buf, pos, n) ==
  LET got == Min(Len(buf) - pos, n)
  IN  [data |-> [i \in 1..n |-> IF i <= got THEN buf[pos + i] ELSE 0],
       pos  |-> pos + got]

\* io::copy(&mut reader, &mut dst2): everything left in the reader
Reader_copy(buf, pos) == SubSeq(buf, pos + 1, Len(buf))

----------------------------------------------------------------------------
(* MACField::from_slice: "{:02x}:{:02x}:{:02x}:{:02x}:{:02x}:{:02x}"       *)
(* A String is modelled as the sequence of its characters.                 *)

HexDigits == <<"0","1","2","3","4","5","6","7","8","9","a","b","c","d","e","f">>

Hex02(b) == <<HexDigits[(b \div 16) + 1], HexDigits[(b % 16) + 1]>>

MACField_from_slice(s) ==
  [addr |-> Hex02(s[1]) \o <<":">> \o Hex02(s[2]) \o <<":">> \o Hex02(s[3])
            \o <<":">> \o Hex02(s[4]) \o <<":">> \o Hex02(s[5]) \o <<":">>
            \o Hex02(s[6])]

----------------------------------------------------------------------------
(* FrameControl *)

protocol_version_low_bit(packet) == packet % 2

protocol_version(packet) == packet % 4

frame_type_data_as_control(packet) ==
  LET t == (packet % 16) \div 4
  IN  IF t = 0 THEN "Management"
      ELSE IF t = 1 THEN "Control"
      ELSE IF t = 2 THEN "Control"
      ELSE "Unknown"

frame_type(packet) ==
  LET t == (packet % 16) \div 4
  IN  IF t = 0 THEN "Management"
      ELSE IF t = 1 THEN "Control"
      ELSE IF t = 2 THEN "Data"
      ELSE "Unknown"

frame_subtype(packet) ==
  LET c == packet \div 16
  IN  CASE c = 0  -> "AssoReq"
        [] c = 1  -> "AssoResp"
        [] c = 2  -> "ReassoReq"
        [] c = 3  -> "ReassoResp"
        [] c = 4  -> "ProbeReq"
        [] c = 5  -> "ProbeResp"
        [] c = 8  -> "Beacon"
        [] c = 9  -> "Atim"
        [] c = 10 -> "Disasso"
        [] c = 11 -> "Auth"
        [] c = 12 -> "Deauth"
        [] OTHER  -> "UnHandled"

data_frame_subtype(packet) ==
  LET c == packet \div 16
  IN  CASE c = 0  -> "Data"
        [] c = 1  -> "DataCfAck"
        [] c = 2  -> "DataCfPull"
        [] c = 3  -> "DataCfAckCfPull"
        [] c = 4  -> "NullData"
        [] c = 5  -> "CfAck"
        [] c = 6  -> "CfPull"
        [] c = 7  -> "CfAckCfPull"
        [] c = 8  -> "QoS"
        [] c = 10 -> "QoSCfPull"
        [] c = 11 -> "QoSCfAckCfPull"
        [] c = 12 -> "QoSNullData"
        [] c = 13 -> "Reserved"
        [] OTHER  -> "UnHandled"

\* the struct literal with retry and more_flag reading each other's bit
FrameControl_new_swapped(ftype, fsubtype, flags) ==
  [frame_type    |-> ftype,
   frame_subtype |-> fsubtype,
   to_ds         |-> flag_is_set(flags, 0),
   from_ds       |-> flag_is_set(flags, 1),
   more_flag     |-> flag_is_set(flags, 3),
   retry         |-> flag_is_set(flags, 2),
   pwr_mgmt      |-> flag_is_set(flags, 4),
   more_data     |-> flag_is_set(flags, 5),
   wep           |-> flag_is_set(flags, 6),
   order         |-> flag_is_set(flags, 7)]

\* the FrameControl struct literal of FrameControl::from_bytes
FrameControl_new(ftype, fsubtype, flags) ==
  [frame_type    |-> ftype,
   frame_subtype |-> fsubtype,
   to_ds         |-> flag_is_set(flags, 0),
   from_ds       |-> flag_is_set(flags, 1),
   more_flag     |-> flag_is_set(flags, 2),
   retry         |-> flag_is_set(flags, 3),
   pwr_mgmt      |-> flag_is_set(flags, 4),
   more_data     |-> flag_is_set(flags, 5),
   wep           |-> flag_is_set(flags, 6),
   order         |-> flag_is_set(flags, 7)]

\* FrameControl::from_bytes: Cursor::get_u8 panics when no byte remains
FrameControl_from_bytes(s) ==
  IF Len(s) < 1 THEN Panic
  ELSE IF Len(s) < 2 THEN Panic
  ELSE
    LET version_type_subtype == s[1]
        flags == s[2]
    IN  IF protocol_version(version_type_subtype) # 0
        THEN Err("Unknow protocol version")
        ELSE
          LET ftype == frame_type(version_type_subtype)
              fsubtype ==
                CASE ftype = "Management" -> frame_subtype(version_type_subtype)
                  [] ftype = "Data"       -> data_frame_subtype(version_type_subtype)
                  [] ftype = "Control"    -> frame_subtype(version_type_subtype)
                  [] ftype = "Unknown"    -> frame_subtype(version_type_subtype)
          IN  Ok(FrameControl_new(ftype, fsubtype, flags))

----------------------------------------------------------------------------
(* FrameAddresses *)

MacLen == 6

FrameAddresses_from_bytes(s) ==
  LET r1 == Reader_read(s, 0, MacLen)
      r2 == Reader_read(s, r1.pos, MacLen)
      r3 == Reader_read(s, r2.pos, MacLen)
      rs == Reader_read(s, r3.pos, 2)
      r4 == Reader_read(s, rs.pos, MacLen)
  IN  Ok([addr1 |-> MACField_from_slice(r1.data),
          addr2 |-> MACField_from_slice(r2.data),
          addr3 |-> MACField_from_slice(r3.data),
          addr4 |-> MACField_from_slice(r4.data)])

----------------------------------------------------------------------------
(* Dot11Header *)

\* the to_ds-only branch taking the from_ds-only mapping
parse_address_branches_swapped(frame_control, s) ==
  LET addresses == FrameAddresses_from_bytes(s).value
  IN  IF frame_control.to_ds /\ frame_control.from_ds
        THEN <<addresses.addr3.addr, addresses.addr4.addr, <<>>>>
      ELSE IF frame_control.to_ds
        THEN <<addresses.addr3.addr, addresses.addr1.addr, addresses.addr2.addr>>
      ELSE IF frame_control.from_ds
        THEN <<addresses.addr2.addr, addresses.addr3.addr, addresses.addr1.addr>>
      ELSE <<addresses.addr1.addr, addresses.addr2.addr, addresses.addr3.addr>>

\* Dot11Header::parse_address: (dst, src, bssid)
parse_address(frame_control, s) ==
  LET addresses == FrameAddresses_from_bytes(s).value
  IN  IF frame_control.to_ds /\ frame_control.from_ds
        THEN <<addresses.addr3.addr, addresses.addr4.addr, <<>>>>
      ELSE IF frame_control.to_ds
        THEN <<addresses.addr2.addr, addresses.addr3.addr, addresses.addr1.addr>>
      ELSE IF frame_control.from_ds
        THEN <<addresses.addr3.addr, addresses.addr1.addr, addresses.addr2.addr>>
      ELSE <<addresses.addr1.addr, addresses.addr2.addr, addresses.addr3.addr>>

\* a body decoder of dot11::info applied to the body slice: returns its
\* variant's value, which the model keeps as the bytes it was given
Body_from_bytes(variant, body) == [variant |-> variant, body |-> body]

UnHandled == [variant |-> "UnHandled", body |-> <<>>]

\* the dispatch without the frame-type match
parse_body_any_type(frame_control, body) ==
  IF frame_control.frame_subtype = "Beacon"
    THEN Body_from_bytes("Beacon", body)
  ELSE IF frame_control.frame_subtype = "ProbeReq"
    THEN Body_from_bytes("ProbeRequest", body)
  ELSE IF frame_control.frame_subtype = "ProbeResp"
    THEN Body_from_bytes("ProbeResponse", body)
  ELSE IF frame_control.frame_subtype = "AssoReq"
    THEN Body_from_bytes("AssociationRequest", body)
  ELSE IF frame_control.frame_subtype = "AssoResp"
    THEN Body_from_bytes("AssociationResponse", body)
  ELSE UnHandled

\* Dot11Header::parse_body
parse_body(frame_control, body) ==
  IF frame_control.frame_type = "Management"
  THEN
    IF frame_control.frame_subtype = "Beacon"
      THEN Body_from_bytes("Beacon", body)
    ELSE IF frame_control.frame_subtype = "ProbeReq"
      THEN Body_from_bytes("ProbeRequest", body)
    ELSE IF frame_control.frame_subtype = "ProbeResp"
      THEN Body_from_bytes("ProbeResponse", body)
    ELSE IF frame_control.frame_subtype = "AssoReq"
      THEN Body_from_bytes("AssociationRequest", body)
    ELSE IF frame_control.frame_subtype = "AssoResp"
      THEN Body_from_bytes("AssociationResponse", body)
    ELSE UnHandled
  ELSE UnHandled

\* a 24-byte address window instead of the 18 bytes the code reads
MacAddressesLen24 == 4 * MacLen

\* let mut mac_addresses = [0; 18]
MacAddressesLen == 18

\* Dot11Header::from_bytes
Dot11Header_from_bytes(s) ==
  LET rc == Reader_read(s, 0, 2)
      fcr == FrameControl_from_bytes(rc.data)
  IN  IF fcr.kind # "Ok" THEN fcr
      ELSE
        LET frame_control == fcr.value
            rd == Reader_read(s, rc.pos, 2)
            rm == Reader_read(s, rd.pos, MacAddressesLen)
            adr == parse_address(frame_control, rm.data)
            rq == Reader_read(s, rm.pos, 2)
            dst2 == Reader_copy(s, rq.pos)
            body_information == parse_body(frame_control, dst2)
        IN  Ok([frame_control |-> frame_control,
                duration      |-> rd.data,
                dst           |-> adr[1],
                src           |-> adr[2],
                bssid         |-> adr[3],
                seq_ctl       |-> rq.data,
                info          |-> body_information])

----------------------------------------------------------------------------
(* Inputs *)

\* byte i (1-based) of fill pattern p; never 0 for the lengths drawn
Fill(p, i) == ((i * (6 * p + 1) + 40 * p) % 255) + 1

\* flags bytes drawn for whole frames: every DS combination, with the
\* other six flags all clear or all set
FrameFlags == {0, 1, 2, 3, 252, 253, 254, 255}

\* lengths drawn for whole frames
FrameLens == {0, 1, 2, 3, 4, 10, 16} \cup (22..MaxLen)

Frame(b0, b1, len, p) ==
  [i \in 1..len |-> IF i = 1 THEN b0 ELSE IF i = 2 THEN b1 ELSE Fill(p, i)]

FrameInputs ==
  {Frame(b0, b1, len, p) : b0 \in Byte, b1 \in FrameFlags,
                           len \in FrameLens, p \in 1..NumPatterns}

\* every slice of at most two bytes
ControlInputs ==
  {<<>>} \cup {<<b0>> : b0 \in Byte} \cup {<<b0, b1>> : b0 \in Byte, b1 \in Byte}

Inputs == ControlInputs \cup FrameInputs

----------------------------------------------------------------------------
(* State machine: one buffer, one call *)

NoResult == [kind |-> "None"]

Init ==
  /\ input \in Inputs
  /\ pc = "idle"
  /\ result = NoResult

\* a caller hands the buffer to FrameControl::from_bytes
CallFrameControl ==
  /\ pc = "idle"
  /\ pc' = "FrameControl"
  /\ result' = FrameControl_from_bytes(input)
  /\ UNCHANGED input

\* a caller hands the buffer to Dot11Header::from_bytes
CallDot11Header ==
  /\ pc = "idle"
  /\ pc' = "Dot11Header"
  /\ result' = Dot11Header_from_bytes(input)
  /\ UNCHANGED input

Next == CallFrameControl \/ CallDot11Header

Spec == Init /\ [][Next]_vars

----------------------------------------------------------------------------
(* Properties *)

\* s[a..b] of the source (0-based, b exclusive); defined when b <= Len(s)
Slice(s, a, b) == SubSeq(s, a + 1, b)

\* s[a..b] with the bytes past the end of s read as 0
PaddedSlice(s, a, b) == [i \in 1..(b - a) |-> IF a + i <= Len(s) THEN s[a + i] ELSE 0]

\* s[a..] of the source, empty when s has at most a bytes
SliceFrom(s, a) == IF Len(s) <= a THEN <<>> ELSE SubSeq(s, a + 1, Len(s))

Bit(b, n) == (b \div (2 ^ n)) % 2

FlipBit(b, n) == IF Bit(b, n) = 1 THEN b - 2 ^ n ELSE b + 2 ^ n

FlagNames == <<"to_ds", "from_ds", "more_flag", "retry", "pwr_mgmt", "more_data", "wep", "order">>

DecodedOk == result.kind = "Ok"

HeaderOk == pc = "Dot11Header" /\ result.kind = "Ok"

\* the body decoders the dispatcher can invoke
DecoderVariants ==
  {"Beacon", "ProbeRequest", "ProbeResponse", "AssociationRequest", "AssociationResponse"}

\* C1: Dot11Header::from_bytes fails with a truncated-input error for every
\* input buffer shorter than 30 bytes, whatever the bytes are.
C1_ShortFrameFails ==
  (pc = "Dot11Header" /\ Len(input) < 30)
    => (result.kind = "Err" /\ result.error = "TruncatedInput")

C3_FourAddressMapping ==
  (pc = "Dot11Header" /\ Len(input) >= 30 /\ input[1] % 4 = 0
     /\ Bit(input[2], 0) = 1 /\ Bit(input[2], 1) = 1)
    => /\ result.kind = "Ok"
       /\ result.value.dst = MACField_from_slice(Slice(input, 16, 22)).addr
       /\ result.value.src = MACField_from_slice(Slice(input, 24, 30)).addr
       /\ result.value.bssid = <<>>

\* C4: for a frame of at least 30 bytes with version 0 whose to_ds and
\* from_ds are not both set, (dst, src, bssid) are the formatted
\* (addr2, addr3, addr1) for to_ds only, (addr3, addr1, addr2) for from_ds
\* only and (addr1, addr2, addr3) for neither, with addr1, addr2, addr3 the
\* bytes 4..10, 10..16, 16..22; nothing else of the frame control matters.
C4_ThreeAddressMapping ==
  (pc = "Dot11Header" /\ Len(input) >= 30 /\ input[1] % 4 = 0)
    => /\ result.kind = "Ok"
       /\ LET h == result.value
              fc == h.frame_control
              a1 == MACField_from_slice(Slice(input, 4, 10)).addr
              a2 == MACField_from_slice(Slice(input, 10, 16)).addr
              a3 == MACField_from_slice(Slice(input, 16, 22)).addr
          IN  /\ (fc.to_ds /\ ~fc.from_ds) => <<h.dst, h.src, h.bssid>> = <<a2, a3, a1>>
              /\ (~fc.to_ds /\ fc.from_ds) => <<h.dst, h.src, h.bssid>> = <<a3, a1, a2>>
              /\ (~fc.to_ds /\ ~fc.from_ds) => <<h.dst, h.src, h.bssid>> = <<a1, a2, a3>>

C4_Witness ==
  /\ HeaderOk
  /\ Len(input) >= 30
  /\ result.value.frame_control.to_ds
  /\ ~result.value.frame_control.from_ds
  /\ result.value.frame_control.wep
  /\ result.value.frame_control.frame_type = "Data"
  /\ result.value.bssid = MACField_from_slice(Slice(input, 4, 10)).addr
  /\ result.value.bssid # result.value.dst

\* the variant the dispatch table gives for a (frame_type, frame_subtype)
DispatchTable(ftype, fsubtype) ==
  IF ftype # "Management" THEN "UnHandled"
  ELSE CASE fsubtype = "Beacon"    -> "Beacon"
         [] fsubtype = "ProbeReq"  -> "ProbeRequest"
         [] fsubtype = "ProbeResp" -> "ProbeResponse"
         [] fsubtype = "AssoReq"   -> "AssociationRequest"
         [] fsubtype = "AssoResp"  -> "AssociationResponse"
         [] OTHER                  -> "UnHandled"

\* C5: for every frame that decodes, the info variant is the one the
\* dispatch table gives for (frame_type, frame_subtype), and the same frame
\* with its body bytes removed gets the same variant.
C5_DispatchByTypeAndSubtype ==
  HeaderOk
    => LET h == result.value
           headerOnly == Dot11Header_from_bytes(SubSeq(input, 1, Min(Len(input), 24)))
       IN  /\ h.info.variant
                = DispatchTable(h.frame_control.frame_type, h.frame_control.frame_subtype)
           /\ headerOnly.kind = "Ok"
           /\ headerOnly.value.info.variant = h.info.variant

C5_Witness ==
  /\ HeaderOk
  /\ Len(input) > 30
  /\ result.value.frame_control.frame_type = "Control"
  /\ result.value.frame_control.frame_subtype = "Beacon"
  /\ result.value.info.variant = "UnHandled"

\* C6: with version 0, the flags to_ds, from_ds, more_flag, retry, pwr_mgmt,
\* more_data, wep, order are bits 0..7 of byte 1; flipping one bit of byte 1
\* changes that flag only, and neither frame_type nor frame_subtype.
C6_FlagsAreBits ==
  (pc = "FrameControl" /\ Len(input) >= 2 /\ input[1] % 4 = 0)
    => /\ result.kind = "Ok"
       /\ \A k \in 0..7 : result.value[FlagNames[k + 1]] = (Bit(input[2], k) = 1)
       /\ \A k \in 0..7 :
            LET other == FrameControl_from_bytes(<<input[1], FlipBit(input[2], k)>>)
            IN  /\ other.kind = "Ok"
                /\ \A j \in 0..7 :
                     (other.value[FlagNames[j + 1]] # result.value[FlagNames[j + 1]])
                       <=> (j = k)
                /\ other.value.frame_type = result.value.frame_type
                /\ other.value.frame_subtype = result.value.frame_subtype

C6_Witness ==
  /\ pc = "FrameControl"
  /\ Len(input) = 2
  /\ input[2] = 72
  /\ DecodedOk
  /\ result.value.retry
  /\ result.value.wep
  /\ ~result.value.more_flag
  /\ ~result.value.order

\* C7: FrameControl::from_bytes on a slice of fewer than 2 bytes returns an
\* error value; it does not panic and returns no FrameControl.
C7_ShortControlIsError ==
  (pc = "FrameControl" /\ Len(input) < 2) => result.kind = "Err"

TypeTable == <<"Management", "Control", "Data", "Unknown">>

ManagementTable ==
  <<"AssoReq", "AssoResp", "ReassoReq", "ReassoResp", "ProbeReq", "ProbeResp",
    "UnHandled", "UnHandled", "Beacon", "Atim", "Disasso", "Auth", "Deauth",
    "UnHandled", "UnHandled", "UnHandled">>

DataTable ==
  <<"Data", "DataCfAck", "DataCfPull", "DataCfAckCfPull", "NullData", "CfAck",
    "CfPull", "CfAckCfPull", "QoS", "UnHandled", "QoSCfPull", "QoSCfAckCfPull",
    "QoSNullData", "Reserved", "UnHandled", "UnHandled">>

\* C10: with version 0, frame_type is Management, Control, Data, Unknown for
\* bits [3:2] = 0, 1, 2, 3 of byte 0, and frame_subtype is bits [7:4] looked
\* up in the Data table for Data and in the management table otherwise,
\* UnHandled for the codes a table lacks; a Data frame with code 9 has
\* frame_subtype UnHandled and info UnHandled.
C10_Classification ==
  ((pc \in {"FrameControl", "Dot11Header"}) /\ Len(input) >= 2 /\ input[1] % 4 = 0)
    => /\ result.kind = "Ok"
       /\ LET fc == IF pc = "FrameControl" THEN result.value
                    ELSE result.value.frame_control
              t == (input[1] \div 4) % 4
              c == input[1] \div 16
          IN  /\ fc.frame_type = TypeTable[t + 1]
              /\ fc.frame_subtype
                   = IF t = 2 THEN DataTable[c + 1] ELSE ManagementTable[c + 1]
              /\ (pc = "Dot11Header" /\ t = 2 /\ c = 9)
                   => (fc.frame_subtype = "UnHandled"
                       /\ result.value.info.variant = "UnHandled")

C10_Witness ==
  /\ HeaderOk
  /\ Len(input) >= 30
  /\ input[1] = 152
  /\ result.value.frame_control.frame_type = "Data"
  /\ result.value.frame_control.frame_subtype = "UnHandled"
  /\ result.value.info.variant = "UnHandled"

====
